---- MODULE Spec2Model ----
(***************************************************************************)
(* A model of the AST-to-IR lowering engine of ts-llvm (LLVMGenerator and  *)
(* mangleFunctionDeclaration).                                             *)
(*                                                                         *)
(* The generator walks a TypeScript AST depth first.  The walk is modelled *)
(* as a state machine whose steps are the visits of the walk: the program  *)
(* text is chosen nondeterministically, node by node, and every action     *)
(* performs what the generator does when the walk enters or leaves that    *)
(* node.  ctl is the stack of constructs the walk is inside of (the call   *)
(* stack of the emit* methods), symtab is SymbolTable.scopes, scopes is    *)
(* the heap of Scope objects, funcs/blocks are the llvm.Module contents    *)
(* and cur is the IRBuilder's insertion block.                             *)
(*                                                                         *)
(* Types of IR values are not modelled (getLLVMType is an external         *)
(* collaborator); instructions keep their opcode and operands only.        *)
(*                                                                         *)
(* Programs of the model: statements that drive the IRBuilder occur inside *)
(* function bodies; the branches of an if statement are Blocks (the else   *)
(* branch may be absent); a variable statement declares one variable; no   *)
(* scope declares the same name twice.  A fatal error (err # "none") ends  *)
(* the walk: the state it leaves is what the caller of emitLLVM gets.      *)
(***************************************************************************)
EXTENDS Naturals, Sequences, FiniteSets, TLC

VARIABLES scopes, symtab, funcs, blocks, cur, ctl, err, n, nslots, last

vars == <<scopes, symtab, funcs, blocks, cur, ctl, err, n, nslots, last>>

(* ------------------------------ bounds -------------------------------- *)

\* number of AST nodes (declarations and statements) the walk may enter
MaxNodes == 4
\* number of function declarations in the program
MaxFuncs == 2
\* nesting depth of open constructs
MaxDepth == 3

VarNames == {"a", "b"}
FuncNames == {"f", "g"}
NsNames == {"M", "N"}

(* ------------------------------ values -------------------------------- *)

\* An llvm.Value or a Scope, as stored in a Scope and passed around by the
\* emit* methods: k is its class, id tells the objects of a class apart.
Val(k, id) == [k |-> k, id |-> id]
NoV == Val("none", 0)

\* A binding of a Scope: the bound value and (bookkeeping only) the kind of
\* declaration that bound it: "const", "let", "param", "func" or "ns".
Bind(v, bk) == [v |-> v, bk |-> bk]

\* class Scope: a name ("" when it has none) and a map.
EmptyMap == [x \in {} |-> NoV]
Scope(name) == [name |-> name, b |-> EmptyMap]

\* Scope.set
ScopeSet(sc, id, name, bnd) ==
  [sc EXCEPT ![id].b = [x \in (DOMAIN sc[id].b) \cup {name} |->
                          IF x = name THEN bnd ELSE sc[id].b[x]]]

Max(S) == CHOOSE x \in S : \A y \in S : y <= x

\* SymbolTable.get: innermost frame of the scope stack that binds the name.
SymHits(name) == {i \in 1..Len(symtab) : name \in DOMAIN scopes[symtab[i]].b}
SymFound(name) == SymHits(name) # {}
SymGet(name) == scopes[symtab[Max(SymHits(name))]].b[name]

(* --------------------------- instructions ----------------------------- *)

\* An instruction: opcode, value operands x and y, block operands t and e.
\* src is bookkeeping for loads: the kind of binding the loaded value was
\* read from ("" when it was not read from a binding).
Ins(op, x, y, t, e) == [op |-> op, x |-> x, y |-> y, t |-> t, e |-> e, src |-> ""]
LoadIns(v, bk) == [op |-> "load", x |-> v, y |-> NoV, t |-> 0, e |-> 0, src |-> bk]

IsTerminator(i) == i.op \in {"ret", "retvoid", "br", "condbr"}

\* BasicBlock.getTerminator(): the last instruction, if it is a terminator.
GetTerminator(blk) == Len(blk.ins) > 0 /\ IsTerminator(blk.ins[Len(blk.ins)])

Append2(bs, i, is) == [bs EXCEPT ![i].ins = @ \o is]

\* Function.getEntryBlock(): the first block created for the function.
EntryBlock(bs, f) == CHOOSE i \in 1..Len(bs) :
                        bs[i].fn = f /\ \A j \in 1..(i-1) : bs[j].fn # f

(* ----------------------------- mangling ------------------------------- *)

\* A mangler that drops the scope prefix.
mangleWithoutPrefix(name, parentScope) == name

mangleFunctionDeclaration(name, parentScope) ==
  LET scopePrefix == IF parentScope.name # "" THEN parentScope.name \o "__" ELSE ""
  IN scopePrefix \o name

(* ---------------------------- expressions ----------------------------- *)

\* ts.Expression nodes.
Id(name) == [k |-> "id", n |-> name]
Lit(kind) == [k |-> "lit", n |-> kind]
Prop(l, name) == [k |-> "prop", l |-> l, n |-> name]
Bin(op, l, r) == [k |-> "bin", op |-> op, l |-> l, r |-> r]
Call(f, args) == [k |-> "call", f |-> f, args |-> args]
Other == [k |-> "num"]

\* The expressions a program of the model may contain.
Exprs == <<
  Id("a"),
  Id("b"),
  Lit("true"),
  Prop(Id("M"), "a"),
  Prop(Prop(Id("M"), "N"), "a"),
  Prop(Id("a"), "b"),
  Bin("=", Id("a"), Id("b")),
  Bin("+", Id("a"), Id("b")),
  Call(Id("f"), <<Id("a")>>),
  Call(Prop(Id("M"), "f"), <<>>),
  Bin("-", Id("a"), Id("a")),
  Other >>

\* The outcome of lowering an expression: the value returned, the kind of
\* binding it was read from (bookkeeping), the instructions the builder
\* appended at the insertion point, and the fatal error raised, if any.
R(v, bk, ins, e) == [v |-> v, bk |-> bk, ins |-> ins, err |-> e]
Fail(ins, e) == R(NoV, "", ins, e)

\* diagnostics.error(): fatal.
error(ins) == Fail(ins, "UnsupportedExpression")

\* A load resolution that forgets the load.
createLoadNever(r) == r

createLoadIfAlloca(r) ==
  IF r.err = "none" /\ r.v.k = "alloca"
  THEN R(Val("load", r.v.id), "", r.ins \o <<LoadIns(r.v, r.bk)>>, "none")
  ELSE r

emitIdentifier(e) ==
  IF SymFound(e.n)
  THEN R(SymGet(e.n).v, SymGet(e.n).bk, <<>>, "none")
  ELSE Fail(<<>>, "UnresolvedName")

\* Scope.get(propertyName): the scope's own map only.
ScopeGet(sid, name) ==
  IF name \in DOMAIN scopes[sid].b
  THEN R(scopes[sid].b[name].v, scopes[sid].b[name].bk, <<>>, "none")
  ELSE Fail(<<>>, "UnresolvedName")

\* A qualified access that resolves the member through the scope chain and
\* only then inside the namespace.
emitPropertyAccessThroughChain(e) ==
  IF e.l.k = "id"
  THEN IF ~SymFound(e.l.n) THEN Fail(<<>>, "UnresolvedName")
       ELSE IF SymGet(e.l.n).v.k = "scope"
            THEN IF SymFound(e.n) THEN R(SymGet(e.n).v, SymGet(e.n).bk, <<>>, "none")
                 ELSE ScopeGet(SymGet(e.l.n).v.id, e.n)
            ELSE error(<<>>)
  ELSE error(<<>>)

emitPropertyAccessExpression(e) ==
  IF e.l.k = "id"
  THEN IF ~SymFound(e.l.n) THEN Fail(<<>>, "UnresolvedName")
       ELSE IF SymGet(e.l.n).v.k = "scope"
            THEN ScopeGet(SymGet(e.l.n).v.id, e.n)
            ELSE error(<<>>)
  ELSE error(<<>>)

emitBooleanLiteral(e) == R(Val("const", 0), "", <<>>, "none")

emitStringLiteral(e) == R(Val("const", 1), "", <<>>, "none")

RECURSIVE emitExpression(_)

emitBinaryExpression(e) ==
  LET left == emitExpression(e.l)
      right == emitExpression(e.r)
  IN IF left.err # "none" THEN left
     ELSE IF right.err # "none" THEN Fail(left.ins \o right.ins, right.err)
     ELSE IF e.op = "="
          THEN LET rv == createLoadIfAlloca(right)
               IN R(Val("store", 0), "",
                    left.ins \o rv.ins \o <<Ins("store", rv.v, left.v, 0, 0)>>, "none")
     ELSE IF e.op = "+"
          THEN LET lv == createLoadIfAlloca([left EXCEPT !.ins = <<>>])
                   rv == createLoadIfAlloca([right EXCEPT !.ins = <<>>])
               IN R(Val("fadd", 0), "",
                    left.ins \o right.ins \o lv.ins \o rv.ins
                      \o <<Ins("fadd", lv.v, rv.v, 0, 0)>>, "none")
     ELSE error(left.ins \o right.ins)

\* Calls of the model pass at most one argument.
emitCallExpression(e) ==
  LET callee == emitExpression(e.f)
      arg == IF Len(e.args) = 0 THEN R(NoV, "", <<>>, "none") ELSE emitExpression(e.args[1])
  IN IF callee.err # "none" THEN callee
     ELSE IF arg.err # "none" THEN Fail(callee.ins \o arg.ins, arg.err)
     ELSE R(Val("call", 0), "",
            callee.ins \o arg.ins \o <<Ins("call", callee.v, arg.v, 0, 0)>>, "none")

emitExpression(e) ==
  CASE e.k = "bin" -> emitBinaryExpression(e)
    [] e.k = "call" -> emitCallExpression(e)
    [] e.k = "prop" -> emitPropertyAccessExpression(e)
    [] e.k = "id" -> emitIdentifier(e)
    [] e.k = "lit" -> IF e.n = "true" THEN emitBooleanLiteral(e) ELSE emitStringLiteral(e)
    [] OTHER -> error(<<>>)

(* ------------------------------- state -------------------------------- *)

GlobalScope == 1

\* A construct the walk is inside of: t is "func", "ns", "block", "then" or
\* "else"; scope is the Scope its children are lowered against, pscope the
\* parentScope it was itself lowered against; fn is the llvm.Function of a
\* "func"; eb and nb are the else and endif blocks of an if statement.
Frame(t, scope, pscope, name, fn, eb, nb) ==
  [t |-> t, scope |-> scope, pscope |-> pscope, name |-> name, fn |-> fn,
   eb |-> eb, nb |-> nb]

Top == ctl[Len(ctl)]
Front(s) == SubSeq(s, 1, Len(s) - 1)

\* The parentScope argument emitNode passes for a child of the current construct.
ParentScope == IF ctl = <<>> THEN GlobalScope ELSE Top.scope

\* The walk is inside a function body.
InFunction == \E i \in DOMAIN ctl : ctl[i].t = "func"

\* The walk is at the top level of a source file or of namespaces.
AtNamespaceLevel == \A i \in DOMAIN ctl : ctl[i].t = "ns"

\* Bookkeeping: the step taken last, the expression it lowered (index in
\* Exprs, 0 if none), what emitExpression returned for it and the insertion
\* block before the step.
Last(ev, e, r, pre) == [ev |-> ev, e |-> e, v |-> r.v, err |-> r.err, pre |-> pre]
NoR == R(NoV, "", <<>>, "none")

Init ==
  /\ scopes = <<Scope("")>>
  /\ symtab = <<GlobalScope>>
  /\ funcs = <<>>
  /\ blocks = <<>>
  /\ cur = 0
  /\ ctl = <<>>
  /\ err = "none"
  /\ n = 0
  /\ nslots = 0
  /\ last = Last("init", 0, NoR, 0)

\* llvm.verifyFunction, which throws on a malformed function: of the verifier's
\* rules the model keeps the structural one, that every block of the function
\* ends in its only terminator.
verifyFunction(bs, f) ==
  \A i \in 1..Len(bs) : bs[i].fn = f =>
     /\ GetTerminator(bs[i])
     /\ \A j \in 1..(Len(bs[i].ins) - 1) : ~IsTerminator(bs[i].ins[j])

\* SymbolTable.withScope, entering: a new Scope pushed on the scope stack.
NewScope(name) == Append(scopes, Scope(name))

(* ---------------------------- declarations ---------------------------- *)

\* Binds the parameters of a signature to the function's arguments.
BindParams(sc, id, params) ==
  [sc EXCEPT ![id].b = [x \in {params[i] : i \in 1..Len(params)} |->
      Bind(Val("arg", CHOOSE i \in 1..Len(params) : params[i] = x), "param")]]

\* emitFunctionDeclaration of a declaration with a body, up to its body.
FunctionBegin(name, void, params) ==
  /\ err = "none" /\ n < MaxNodes /\ Len(funcs) < MaxFuncs /\ Len(ctl) < MaxDepth
  /\ name \notin DOMAIN scopes[ParentScope].b
  /\ LET qualifiedName == mangleFunctionDeclaration(name, scopes[ParentScope])
         func == Len(funcs) + 1
         bodyScope == Len(scopes) + 1
     IN /\ funcs' = Append(funcs, [name |-> qualifiedName, void |-> void, sn |-> name,
                                   ps |-> ParentScope, body |-> TRUE, done |-> FALSE])
        /\ scopes' = BindParams(NewScope(qualifiedName), bodyScope, params)
        /\ symtab' = Append(symtab, bodyScope)
        /\ blocks' = Append(blocks, [fn |-> func, label |-> "entry", ins |-> <<>>])
        /\ cur' = Len(blocks) + 1
        /\ ctl' = Append(ctl, Frame("func", bodyScope, ParentScope, name, func, 0, 0))
  /\ n' = n + 1
  /\ last' = Last("FunctionBegin", 0, NoR, cur)
  /\ UNCHANGED <<err, nslots>>

\* The terminator emitFunctionDeclaration adds when the body is lowered.
EnsureTerminated(bs, c, void) ==
  IF ~GetTerminator(bs[c])
  THEN IF void THEN Append2(bs, c, <<Ins("retvoid", NoV, NoV, 0, 0)>>) ELSE bs
  ELSE bs

\* emitFunctionDeclaration after the body: termination, verification, binding.
FunctionEnd ==
  /\ err = "none" /\ ctl # <<>> /\ Top.t = "func"
  /\ LET fr == Top
         bs == EnsureTerminated(blocks, cur, funcs[fr.fn].void)
     IN /\ blocks' = bs
        /\ symtab' = Front(symtab)
        /\ funcs' = [funcs EXCEPT ![fr.fn].done = TRUE]
        /\ IF verifyFunction(bs, fr.fn)
           THEN /\ scopes' = ScopeSet(scopes, fr.pscope, fr.name, Bind(Val("func", fr.fn), "func"))
                /\ ctl' = Front(ctl)
                /\ err' = err
           ELSE /\ err' = "VerificationFailure"
                /\ UNCHANGED <<scopes, ctl>>
  /\ last' = Last("FunctionEnd", 0, NoR, cur)
  /\ UNCHANGED <<cur, n, nslots>>

\* emitFunctionDeclaration of a declaration without a body.
FunctionDeclare(name, void) ==
  /\ err = "none" /\ n < MaxNodes /\ Len(funcs) < MaxFuncs
  /\ name \notin DOMAIN scopes[ParentScope].b
  /\ LET qualifiedName == mangleFunctionDeclaration(name, scopes[ParentScope])
     IN /\ funcs' = Append(funcs, [name |-> qualifiedName, void |-> void, sn |-> name,
                                   ps |-> ParentScope, body |-> FALSE, done |-> TRUE])
        /\ scopes' = ScopeSet(scopes, ParentScope, name, Bind(Val("func", Len(funcs) + 1), "func"))
  /\ n' = n + 1
  /\ last' = Last("FunctionDeclare", 0, NoR, cur)
  /\ UNCHANGED <<symtab, blocks, cur, ctl, err, nslots>>

\* emitModuleDeclaration, up to its body.
NamespaceBegin(name) ==
  /\ err = "none" /\ n < MaxNodes /\ Len(ctl) < MaxDepth
  /\ AtNamespaceLevel
  /\ scopes' = NewScope(name)
  /\ ctl' = Append(ctl, Frame("ns", Len(scopes) + 1, ParentScope, name, 0, 0, 0))
  /\ n' = n + 1
  /\ last' = Last("NamespaceBegin", 0, NoR, cur)
  /\ UNCHANGED <<symtab, funcs, blocks, cur, err, nslots>>

\* emitModuleDeclaration after its body.
NamespaceEnd ==
  /\ err = "none" /\ ctl # <<>> /\ Top.t = "ns"
  /\ scopes' = ScopeSet(scopes, Top.pscope, Top.name, Bind(Val("scope", Top.scope), "ns"))
  /\ ctl' = Front(ctl)
  /\ last' = Last("NamespaceEnd", 0, NoR, cur)
  /\ UNCHANGED <<symtab, funcs, blocks, cur, err, n, nslots>>

\* emitBlock, up to its statements.
BlockBegin ==
  /\ err = "none" /\ n < MaxNodes /\ Len(ctl) < MaxDepth
  /\ scopes' = NewScope("")
  /\ symtab' = Append(symtab, Len(scopes) + 1)
  /\ ctl' = Append(ctl, Frame("block", Len(scopes) + 1, ParentScope, "", 0, 0, 0))
  /\ n' = n + 1
  /\ last' = Last("BlockBegin", 0, NoR, cur)
  /\ UNCHANGED <<funcs, blocks, cur, err, nslots>>

\* emitBlock after its statements.
BlockEnd ==
  /\ err = "none" /\ ctl # <<>> /\ Top.t = "block"
  /\ symtab' = Front(symtab)
  /\ ctl' = Front(ctl)
  /\ last' = Last("BlockEnd", 0, NoR, cur)
  /\ UNCHANGED <<scopes, funcs, blocks, cur, err, n, nslots>>

(* ----------------------------- statements ----------------------------- *)

\* A statement that drives the IRBuilder occurs inside a function body.
StatementHere == err = "none" /\ n < MaxNodes /\ InFunction

\* LLVMGenerator.currentFunction
currentFunction(bs, c) == bs[c].fn

\* createEntryBlockAlloca: a builder positioned at the end of the entry block.
createEntryBlockAlloca(bs, c, id) ==
  Append2(bs, EntryBlock(bs, currentFunction(bs, c)),
          <<Ins("alloca", Val("alloca", id), NoV, 0, 0)>>)

\* emitReturnStatement with an expression.
Return(i) ==
  /\ StatementHere
  /\ LET raw == emitExpression(Exprs[i])
         r == createLoadIfAlloca(raw)
     IN /\ err' = r.err
        /\ blocks' = IF r.err = "none"
                     THEN Append2(blocks, cur, r.ins \o <<Ins("ret", r.v, NoV, 0, 0)>>)
                     ELSE Append2(blocks, cur, r.ins)
        /\ last' = Last("Return", i, raw, cur)
  /\ n' = n + 1
  /\ UNCHANGED <<scopes, symtab, funcs, cur, ctl, nslots>>

\* emitReturnStatement without an expression.
ReturnVoid ==
  /\ StatementHere
  /\ blocks' = Append2(blocks, cur, <<Ins("retvoid", NoV, NoV, 0, 0)>>)
  /\ n' = n + 1
  /\ last' = Last("ReturnVoid", 0, NoR, cur)
  /\ UNCHANGED <<scopes, symtab, funcs, cur, ctl, err, nslots>>

\* emitExpressionStatement
ExpressionStatement(i) ==
  /\ StatementHere
  /\ LET raw == emitExpression(Exprs[i])
     IN /\ err' = raw.err
        /\ blocks' = Append2(blocks, cur, raw.ins)
        /\ last' = Last("ExpressionStatement", i, raw, cur)
  /\ n' = n + 1
  /\ UNCHANGED <<scopes, symtab, funcs, cur, ctl, nslots>>

\* The initializers a const and a let declaration of the model may have.
VarInits(const) == IF const THEN {1, 3} ELSE {3}

\* emitVariableStatement, for a statement that declares one variable.  Outside
\* function bodies the model declares constants with literal initializers only.
VariableStatement(name, const, i) ==
  /\ err = "none" /\ n < MaxNodes
  /\ i \in VarInits(const)
  /\ InFunction \/ (const /\ Exprs[i].k = "lit")
  /\ name \notin DOMAIN scopes[ParentScope].b
  /\ LET raw == emitExpression(Exprs[i])
         initializer == createLoadIfAlloca(raw)
         bs == IF cur = 0 THEN blocks ELSE Append2(blocks, cur, initializer.ins)
     IN /\ err' = initializer.err
        /\ last' = Last("VariableStatement", i, raw, cur)
        /\ IF initializer.err # "none"
           THEN /\ blocks' = bs
                /\ UNCHANGED <<scopes, nslots>>
           ELSE IF const
           THEN /\ blocks' = bs
                /\ scopes' = ScopeSet(scopes, ParentScope, name, Bind(initializer.v, "const"))
                /\ UNCHANGED nslots
           ELSE LET alloca == Val("alloca", nslots + 1)
                IN /\ blocks' = Append2(createEntryBlockAlloca(bs, cur, nslots + 1), cur,
                                        <<Ins("store", initializer.v, alloca, 0, 0)>>)
                   /\ scopes' = ScopeSet(scopes, ParentScope, name, Bind(alloca, "let"))
                   /\ nslots' = nslots + 1
  /\ n' = n + 1
  /\ UNCHANGED <<symtab, funcs, cur, ctl>>

\* A fallthrough that branches whether or not the block is terminated.
FallthroughAlways(bs, c, continuation) ==
  Append2(bs, c, <<Ins("br", NoV, NoV, continuation, 0)>>)

\* emitFoo after the branch's statement: the fallthrough branch.
Fallthrough(bs, c, continuation) ==
  IF ~GetTerminator(bs[c])
  THEN Append2(bs, c, <<Ins("br", NoV, NoV, continuation, 0)>>)
  ELSE bs

\* The conditions an if statement of the model may have.
Conds == {1, 3}

\* emitIfStatement up to the then branch, a Block: the condition, the three
\* blocks, the conditional branch, and emitFoo entering the then Block.
IfBegin(i) ==
  /\ StatementHere /\ Len(ctl) < MaxDepth
  /\ LET condition == emitExpression(Exprs[i])
         f == currentFunction(blocks, cur)
         thenBlock == Len(blocks) + 1
         elseBlock == Len(blocks) + 2
         endBlock == Len(blocks) + 3
     IN /\ err' = condition.err
        /\ last' = Last("IfBegin", i, condition, cur)
        /\ IF condition.err # "none"
           THEN /\ blocks' = Append2(blocks, cur, condition.ins)
                /\ UNCHANGED <<scopes, symtab, cur, ctl>>
           ELSE /\ blocks' = Append2(blocks, cur,
                                condition.ins \o <<Ins("condbr", condition.v, NoV, thenBlock, elseBlock)>>)
                               \o << [fn |-> f, label |-> "then", ins |-> <<>>],
                                     [fn |-> f, label |-> "else", ins |-> <<>>],
                                     [fn |-> f, label |-> "endif", ins |-> <<>>] >>
                /\ cur' = thenBlock
                /\ scopes' = NewScope("")
                /\ symtab' = Append(symtab, Len(scopes) + 1)
                /\ ctl' = Append(ctl, Frame("then", Len(scopes) + 1, ParentScope, "", 0,
                                            elseBlock, endBlock))
  /\ n' = n + 1
  /\ UNCHANGED <<funcs, nslots>>

\* The then Block is lowered and an else Block follows: emitFoo's fallthrough
\* for the then branch, then emitFoo entering the else Block.
IfElse ==
  /\ err = "none" /\ ctl # <<>> /\ Top.t = "then"
  /\ blocks' = Fallthrough(blocks, cur, Top.nb)
  /\ cur' = Top.eb
  /\ scopes' = NewScope("")
  /\ symtab' = Append(Front(symtab), Len(scopes) + 1)
  /\ ctl' = Append(Front(ctl), Frame("else", Len(scopes) + 1, Top.pscope, "", 0, 0, Top.nb))
  /\ last' = Last("IfElse", 0, NoR, cur)
  /\ UNCHANGED <<funcs, err, n, nslots>>

\* The then Block is lowered and there is no else: both emitFoo calls finish
\* and the builder moves to the endif block.
IfEndNoElse ==
  /\ err = "none" /\ ctl # <<>> /\ Top.t = "then"
  /\ blocks' = Fallthrough(Fallthrough(blocks, cur, Top.nb), Top.eb, Top.nb)
  /\ cur' = Top.nb
  /\ symtab' = Front(symtab)
  /\ ctl' = Front(ctl)
  /\ last' = Last("IfEndNoElse", 0, NoR, cur)
  /\ UNCHANGED <<scopes, funcs, err, n, nslots>>

\* The else Block is lowered: its emitFoo finishes, the builder moves to endif.
IfEnd ==
  /\ err = "none" /\ ctl # <<>> /\ Top.t = "else"
  /\ blocks' = Fallthrough(blocks, cur, Top.nb)
  /\ cur' = Top.nb
  /\ symtab' = Front(symtab)
  /\ ctl' = Front(ctl)
  /\ last' = Last("IfEnd", 0, NoR, cur)
  /\ UNCHANGED <<scopes, funcs, err, n, nslots>>

(* --------------------------- specification ---------------------------- *)

\* The function signatures, returned expressions and expression statements
\* a program of the model may contain.
Signatures ==
  { [name |-> "f", void |-> TRUE, params |-> <<>>],
    [name |-> "f", void |-> FALSE, params |-> <<"a">>],
    [name |-> "g", void |-> FALSE, params |-> <<>>] }
Returned == {1, 3, 4}
Statements == {4, 5, 6, 7, 8, 9, 12}
Declared == {"g"}

Next ==
  \/ \E sig \in Signatures : FunctionBegin(sig.name, sig.void, sig.params)
  \/ FunctionEnd
  \/ \E name \in Declared : FunctionDeclare(name, FALSE)
  \/ \E name \in NsNames : NamespaceBegin(name)
  \/ NamespaceEnd
  \/ BlockBegin
  \/ BlockEnd
  \/ \E i \in Returned : Return(i)
  \/ ReturnVoid
  \/ \E i \in Statements : ExpressionStatement(i)
  \/ \E name \in VarNames, const \in BOOLEAN, i \in 1..Len(Exprs) : VariableStatement(name, const, i)
  \/ \E i \in Conds : IfBegin(i)
  \/ IfElse
  \/ IfEndNoElse
  \/ IfEnd

Spec == Init /\ [][Next]_vars

(* ------------------------------ properties --------------------------- *)

AllIns(blk) == {blk.ins[j] : j \in 1..Len(blk.ins)}
Terminators(blk) == {j \in 1..Len(blk.ins) : IsTerminator(blk.ins[j])}

Successors(i) ==
  UNION {{x.t, x.e} \ {0} : x \in {y \in AllIns(blocks[i]) : y.op \in {"br", "condbr"}}}

RECURSIVE Closure(_)
Closure(S) ==
  LET T == S \cup UNION {Successors(i) : i \in S}
  IN IF T = S THEN S ELSE Closure(T)

\* The blocks of a function with a body that control can reach from its entry.
Reachable(f) == Closure({EntryBlock(blocks, f)})

\* C1: once emitFunctionDeclaration has lowered a function with a body, every
\* reachable block of the function holds exactly one terminator, as its last
\* instruction, whether the declared return type is void or not.
C1_ReachableBlocksTerminated ==
  \A f \in 1..Len(funcs) :
    (funcs[f].body /\ funcs[f].done) =>
      \A i \in Reachable(f) : Terminators(blocks[i]) = {Len(blocks[i].ins)} /\ Len(blocks[i].ins) > 0

\* C2: while a function body is lowered, no block holds an instruction after a
\* terminator (so none holds two terminators, and no hoisted alloca follows the
\* entry block's terminator).
C2_NothingAfterTerminator ==
  InFunction =>
    \A i \in 1..Len(blocks) : \A j \in Terminators(blocks[i]) : j = Len(blocks[i].ins)

IsSlot(v) == v.k = "alloca"

\* C3: a mutable binding is never consumed as a value without a load: no
\* return operand, stored value, operand of an addition, call argument or branch
\* condition is a stack slot.
C3_SlotsReadThroughLoad ==
  \A i \in 1..Len(blocks) : \A x \in AllIns(blocks[i]) :
    /\ x.op \in {"ret", "store", "fadd", "condbr"} => ~IsSlot(x.x)
    /\ x.op \in {"fadd", "call"} => ~IsSlot(x.y)

Immutable == {"const", "param", "func"}

\* C4: the value a scope holds for a const variable, a parameter or a function
\* is never a stack slot, and no load is emitted for a value read from such a
\* binding.
C4_ImmutableBindingsAreDirect ==
  /\ \A s \in 1..Len(scopes) : \A x \in DOMAIN scopes[s].b :
        scopes[s].b[x].bk \in Immutable => ~IsSlot(scopes[s].b[x].v)
  /\ \A i \in 1..Len(blocks) : \A x \in AllIns(blocks[i]) :
        x.op = "load" => (x.src = "let" /\ IsSlot(x.x))

\* a = b was lowered where b is a const whose initializer was a mutable
\* variable: b is bound to the loaded value and is stored without another load
\* (the only load of the block is the one of b's initializer).
C4_Witness ==
  /\ last.ev = "ExpressionStatement" /\ last.e = 7 /\ err = "none"
  /\ SymGet("b").bk = "const" /\ SymGet("b").v.k = "load"
  /\ SymGet("a").bk = "let"
  /\ LET is == blocks[cur].ins
     IN /\ Len(is) >= 2
        /\ is[Len(is)] = Ins("store", SymGet("b").v, SymGet("a").v, 0, 0)
        /\ Cardinality({j \in 1..Len(is) : is[j].op = "load"}) = 1

\* C5: no two function declarations of the program get the same mangled name.
C5_MangledNamesDistinct ==
  \A i, j \in 1..Len(funcs) : i # j => funcs[i].name # funcs[j].name

\* The function declarations whose lowering is under way.
OpenFunctions == {i \in DOMAIN ctl : ctl[i].t = "func"}

\* C6: when lowering has aborted on an unresolved name or an unsupported
\* expression, the functions that were being lowered are not registered in the
\* module and their names are not bound to them in the enclosing scope.
C6_NoPartialFunction ==
  err \in {"UnresolvedName", "UnsupportedExpression"} =>
    \A i \in OpenFunctions :
      /\ ctl[i].fn \notin DOMAIN funcs
      /\ ~(/\ ctl[i].name \in DOMAIN scopes[ctl[i].pscope].b
           /\ scopes[ctl[i].pscope].b[ctl[i].name].v = Val("func", ctl[i].fn))

\* The step lowers the head of an if statement / finishes one of its branches.
IfBeginStep == n' = n + 1 /\ last'.ev = "IfBegin" /\ err' = "none"
BranchEndStep == ctl' # ctl /\ last'.ev \in {"IfElse", "IfEndNoElse", "IfEnd"}

\* What emitFoo leaves in the block where a branch ended: a branch to endif
\* added exactly when that block had no terminator.
BranchClosed(b, endif) ==
  blocks'[b].ins = IF GetTerminator(blocks[b])
                   THEN blocks[b].ins
                   ELSE blocks[b].ins \o <<Ins("br", NoV, NoV, endif, 0)>>

\* C7: an if statement creates exactly the three blocks then, else and endif in
\* the current function and one conditional branch from the current block to
\* (then, else); the block where a branch ends gets a branch to endif if and
\* only if it has no terminator then; an absent else branches straight to endif;
\* afterwards the builder is at endif.  Nesting does not matter.
C7_IfLowering ==
  [][ /\ IfBeginStep =>
         /\ Len(blocks') = Len(blocks) + 3
         /\ \A k \in 1..3 : /\ blocks'[Len(blocks) + k].fn = blocks[cur].fn
                             /\ blocks'[Len(blocks) + k].ins = <<>>
         /\ <<blocks'[Len(blocks) + 1].label, blocks'[Len(blocks) + 2].label,
              blocks'[Len(blocks) + 3].label>> = <<"then", "else", "endif">>
         /\ blocks'[cur].ins = blocks[cur].ins \o
              <<Ins("condbr", last'.v, NoV, Len(blocks) + 1, Len(blocks) + 2)>>
         /\ \A i \in 1..Len(blocks) : i # cur => blocks'[i] = blocks[i]
         /\ cur' = Len(blocks) + 1
         /\ ctl'[Len(ctl')].eb = Len(blocks) + 2 /\ ctl'[Len(ctl')].nb = Len(blocks) + 3
      /\ BranchEndStep =>
         /\ Len(blocks') = Len(blocks)
         /\ BranchClosed(cur, Top.nb)
         /\ last'.ev = "IfElse" =>
              /\ cur' = Top.eb
              /\ \A i \in 1..Len(blocks) : i # cur => blocks'[i] = blocks[i]
         /\ last'.ev = "IfEndNoElse" =>
              /\ cur' = Top.nb
              /\ cur # Top.eb => blocks'[Top.eb].ins = <<Ins("br", NoV, NoV, Top.nb, 0)>>
              /\ \A i \in 1..Len(blocks) : i \notin {cur, Top.eb} => blocks'[i] = blocks[i]
         /\ last'.ev = "IfEnd" =>
              /\ cur' = Top.nb
              /\ \A i \in 1..Len(blocks) : i # cur => blocks'[i] = blocks[i]
    ]_vars

\* An if statement nested in the then branch of another was lowered, and its
\* then branch ended in a return: the block kept the return as its last
\* instruction and the builder is at the inner endif.
C7_Witness ==
  /\ last.ev = "IfEndNoElse" /\ err = "none"
  /\ ctl # <<>> /\ Top.t = "then"
  /\ blocks[last.pre].label = "then"
  /\ blocks[last.pre].ins # <<>>
  /\ blocks[last.pre].ins[Len(blocks[last.pre].ins)].op \in {"ret", "retvoid"}
  /\ blocks[cur].label = "endif" /\ cur = last.pre + 2
  /\ blocks[cur - 1].ins = <<Ins("br", NoV, NoV, cur, 0)>>

\* C8: the mangled name of a declaration is its simple name when the enclosing
\* scope has no name, and the scope's name, "__" and the simple name otherwise
\* (f in M is "M__f"); equal inputs give equal names.
C8_Mangling ==
  /\ \A i \in 1..Len(funcs) :
        LET scopeName == scopes[funcs[i].ps].name
        IN /\ scopeName = "" => funcs[i].name = funcs[i].sn
           /\ scopeName # "" => funcs[i].name = scopeName \o "__" \o funcs[i].sn
           /\ (scopeName = "M" /\ funcs[i].sn = "f") => funcs[i].name = "M__f"
  /\ \A i, j \in 1..Len(funcs) :
        (funcs[i].sn = funcs[j].sn /\ scopes[funcs[i].ps].name = scopes[funcs[j].ps].name)
          => funcs[i].name = funcs[j].name

\* f was declared at the top level, in an anonymous block and in namespace M.
C8_Witness ==
  /\ \E i \in 1..Len(funcs) : funcs[i].name = "M__f" /\ scopes[funcs[i].ps].name = "M"
  /\ \E i \in 1..Len(funcs) : funcs[i].name = "f" /\ funcs[i].ps = GlobalScope

\* The statement lowered last was, or returned, a qualified access a.b.
LastIsProp ==
  /\ last.ev \in {"ExpressionStatement", "Return"}
  /\ Exprs[last.e].k = "prop"

LexicalChain == {GlobalScope} \cup {ctl[i].scope : i \in DOMAIN ctl}

\* The step lowered last had a plain identifier as its expression.
LastIsIdentifier == last.e # 0 /\ Exprs[last.e].k = "id"

\* C10: an identifier fails as unresolved only when no lexically enclosing
\* scope, namespace scopes included, binds it.
C10_LexicalResolution ==
  (LastIsIdentifier /\ last.err = "UnresolvedName") =>
    \A s \in LexicalChain : Exprs[last.e].n \notin DOMAIN scopes[s].b

====
